---- MODULE Spec2Model ----
(***************************************************************************)
(* Model of the Edge AI recyclable-items classifier.                       *)
(*                                                                         *)
(*   src/edge_AI_streamlit_app.py  the Streamlit script.  Streamlit runs   *)
(*       the whole script, top to bottom, once per interaction and per     *)
(*       browser session; every run is modelled as a sequence of steps of  *)
(*       one session.                                                      *)
(*   src/test_import.py, src/test_opencv_fallback.py  the PIL-based        *)
(*       preprocessing (open, convert, resize, scale, add batch axis).     *)
(*                                                                         *)
(* Confidences are integers in hundredths (0.85 is 85); formatted          *)
(* percentages are integers in tenths of a percent (85.0% is 850).         *)
(***************************************************************************)
EXTENDS Integers, Sequences, FiniteSets, TLC

\* ------------------------------------------------------------------ bounds
\* Browser sessions, each with its own script thread.
NumSessions == 2
\* Script runs started over the life of the process.
MaxRuns == 4
\* Largest width or height of a test image and of a resize target.
MaxDim == 2

Sessions == 1..NumSessions

\* ------------------------------------------------------ images and uploads
\* PIL colour modes of the images the uploader accepts (jpg, jpeg, png, bmp).
Modes == {"RGB", "RGBA", "L", "P"}

\* What st.file_uploader returns in a run: nothing, bytes PIL cannot
\* identify, or an image of some colour mode.
Uploads == {"none", "corrupt"} \cup Modes

\* Number of bands of a PIL image of the given mode.
Channels(mode) ==
    CASE mode = "RGB"  -> 3
      [] mode = "RGBA" -> 4
      [] mode = "L"    -> 1
      [] mode = "P"    -> 1

\* image.save(<name>.jpg): the JPEG writer accepts neither an alpha band nor
\* a palette and raises OSError for them.
JpegWritable(mode) == mode \in {"RGB", "L"}

\* Image.open(uploaded_file): the image keeps the mode of the file; the
\* script applies no conversion.
OpenImage(upload) == upload

\* --------------------------------------------------------------- classifier
\* The hard-coded predictions dictionary, in insertion order.
MockPredictions ==
    << [item |-> "Plastic Bottle", confidence |-> 85],
       [item |-> "Aluminum Can",   confidence |-> 10],
       [item |-> "Paper",          confidence |-> 3],
       [item |-> "Glass",          confidence |-> 2] >>

\* A classifier whose answer depends on the image.
PredictByImage(image) ==
    IF image = "L"
    THEN << [item |-> "Paper",          confidence |-> 85],
            [item |-> "Plastic Bottle", confidence |-> 10],
            [item |-> "Aluminum Can",   confidence |-> 3],
            [item |-> "Glass",          confidence |-> 2] >>
    ELSE MockPredictions

\* The "inference" of the script: the uploaded image is never read.
Predict(image) == MockPredictions

\* Score vectors a real model could hand to the display code in place of the
\* dictionary: the dictionary itself and every three-class vector over a few
\* sample scores (150 is a raw score above 1.0).
ScoreSamples == {0, 50, 150}
PredictionInputs ==
    {MockPredictions} \cup
    { << [item |-> "A", confidence |-> a],
         [item |-> "B", confidence |-> b],
         [item |-> "C", confidence |-> c] >> :
      a \in ScoreSamples, b \in ScoreSamples, c \in ScoreSamples }

\* f"{confidence:.1%}": tenths of a percent.
FormatPercent(confidence) == confidence * 10

\* st.progress(value) accepts a float only in [0.0, 1.0].
ProgressAccepts(confidence) == confidence >= 0 /\ confidence <= 100

\* max() that keeps the last of several maximal keys.
RECURSIVE ArgMaxLast(_, _, _)
ArgMaxLast(p, k, best) ==
    IF k > Len(p) THEN best
    ELSE ArgMaxLast(p, k + 1,
                    IF p[k].confidence >= p[best].confidence THEN k ELSE best)

\* max(predictions, key=predictions.get): one pass in insertion order that
\* replaces the candidate only by a strictly greater value.
RECURSIVE ArgMaxFrom(_, _, _)
ArgMaxFrom(p, k, best) ==
    IF k > Len(p) THEN best
    ELSE ArgMaxFrom(p, k + 1,
                    IF p[k].confidence > p[best].confidence THEN k ELSE best)

TopLast(p) == p[ArgMaxLast(p, 2, 1)].item

\* top_prediction
TopPrediction(p) == p[ArgMaxFrom(p, 2, 1)].item

\* --------------------------------------------------------------------- state
VARIABLES
    cv2_available,   \* whether "import cv2" can succeed in this environment
    runs,            \* script runs started so far
    disk,            \* temporary files that exist (named by the run that made them)
    loadSteps,       \* executions of the "load the model" step
    sess             \* per session: the script's variables and position

appVars == <<cv2_available, runs, disk, loadSteps, sess>>

VARIABLES
    tpc,               \* position in the preprocessing code
    img,               \* the PIL image
    target,            \* the (width, height) passed to resize
    processed_image    \* the numpy array

testVars == <<tpc, img, target, processed_image>>

NoSess ==
    [ pc |-> "idle", run |-> 0, first |-> TRUE, uploaded_file |-> "none",
      image |-> "none", tmp_file |-> 0, temp_image_path |-> 0,
      predictions |-> << >>, rows |-> << >>, bars |-> << >>,
      top_prediction |-> "none", success |-> 0,
      st_error |-> FALSE, exc |-> "none" ]

AppInit ==
    /\ cv2_available \in BOOLEAN
    /\ runs = 0
    /\ disk = {}
    /\ loadSteps = 0
    /\ sess = [s \in Sessions |-> NoSess]

Set(s, r) == sess' = [sess EXCEPT ![s] = r]

\* ------------------------------------------------------------- script steps
\* A run begins: the page is cleared and the script's variables are fresh.
\* The first run of a session (page load) has no uploaded file.
StartRun(s) ==
    /\ sess[s].pc \in {"idle", "done", "raised"}
    /\ runs < MaxRuns
    /\ runs' = runs + 1
    /\ \E u \in Uploads :
         /\ sess[s].first => u = "none"
         /\ Set(s, [NoSess EXCEPT !.pc = "import", !.run = runs + 1,
                                  !.first = FALSE, !.uploaded_file = u])
    /\ UNCHANGED <<testVars, cv2_available, disk, loadSteps>>

\* Lines 1-7: the imports, cv2 among them, unguarded.
ImportModules(s) ==
    /\ sess[s].pc = "import"
    /\ IF cv2_available
       THEN Set(s, [sess[s] EXCEPT !.pc = "upload"])
       ELSE Set(s, [sess[s] EXCEPT !.pc = "raised", !.exc = "ImportError"])
    /\ UNCHANGED <<testVars, cv2_available, runs, disk, loadSteps>>

\* Lines 80, 89-91: no file uploaded.
NoUpload(s) ==
    /\ sess[s].pc = "upload"
    /\ sess[s].uploaded_file = "none"
    /\ Set(s, [sess[s] EXCEPT !.pc = "col2", !.temp_image_path = 0])
    /\ UNCHANGED <<testVars, cv2_available, runs, disk, loadSteps>>

\* Lines 80-83: Image.open and st.image.
OpenUpload(s) ==
    /\ sess[s].pc = "upload"
    /\ sess[s].uploaded_file # "none"
    /\ IF sess[s].uploaded_file = "corrupt"
       THEN Set(s, [sess[s] EXCEPT !.pc = "raised",
                                   !.exc = "UnidentifiedImageError"])
       ELSE Set(s, [sess[s] EXCEPT !.pc = "tmpfile",
                                   !.image = OpenImage(sess[s].uploaded_file)])
    /\ UNCHANGED <<testVars, cv2_available, runs, disk, loadSteps>>

\* Line 86: NamedTemporaryFile(delete=False) creates the file.
CreateTempFile(s) ==
    /\ sess[s].pc = "tmpfile"
    /\ disk' = disk \cup {sess[s].run}
    /\ Set(s, [sess[s] EXCEPT !.pc = "save", !.tmp_file = sess[s].run])
    /\ UNCHANGED <<testVars, cv2_available, runs, loadSteps>>

\* Lines 87-88: image.save(tmp_file.name); leaving the with block closes the
\* file and, with delete=False, keeps it.
SaveImage(s) ==
    /\ sess[s].pc = "save"
    /\ IF JpegWritable(sess[s].image)
       THEN Set(s, [sess[s] EXCEPT !.pc = "col2",
                                   !.temp_image_path = sess[s].tmp_file])
       ELSE Set(s, [sess[s] EXCEPT !.pc = "raised", !.exc = "OSError"])
    /\ UNCHANGED <<testVars, cv2_available, runs, disk, loadSteps>>

\* Lines 96, 138-139: nothing to classify.
NoImage(s) ==
    /\ sess[s].pc = "col2"
    /\ sess[s].temp_image_path = 0
    /\ Set(s, [sess[s] EXCEPT !.pc = "cleanup"])
    /\ UNCHANGED <<testVars, cv2_available, runs, disk, loadSteps>>

\* Lines 96-103: the model-loading step of the try block, run by every
\* script run that has an image; nothing is cached between runs.
LoadModel(s) ==
    /\ sess[s].pc = "col2"
    /\ sess[s].temp_image_path # 0
    /\ loadSteps' = loadSteps + 1
    /\ Set(s, [sess[s] EXCEPT !.pc = "infer"])
    /\ UNCHANGED <<testVars, cv2_available, runs, disk>>

\* Lines 107-118: the spinner, the sleep and the predictions dictionary.
Classify(s) ==
    /\ sess[s].pc = "infer"
    /\ Set(s, [sess[s] EXCEPT !.pc = "display",
                              !.predictions = Predict(sess[s].image)])
    /\ UNCHANGED <<testVars, cv2_available, runs, disk, loadSteps>>

\* Lines 125-127, one iteration: st.write then st.progress.
DisplayRow(s) ==
    LET k == Len(sess[s].rows) + 1 IN
    /\ sess[s].pc = "display"
    /\ k <= Len(sess[s].predictions)
    /\ ProgressAccepts(sess[s].predictions[k].confidence)
    /\ Set(s, [sess[s] EXCEPT
                 !.rows = Append(@, [item |-> sess[s].predictions[k].item,
                                     text |-> FormatPercent(
                                        sess[s].predictions[k].confidence)]),
                 !.bars = Append(@, sess[s].predictions[k].confidence)])
    /\ UNCHANGED <<testVars, cv2_available, runs, disk, loadSteps>>

\* Lines 125-127 and 135-137: st.write shows the row, st.progress raises, and
\* the except clause reports the error; the script goes on after the try.
DisplayRowRaises(s) ==
    LET k == Len(sess[s].rows) + 1 IN
    /\ sess[s].pc = "display"
    /\ k <= Len(sess[s].predictions)
    /\ ~ProgressAccepts(sess[s].predictions[k].confidence)
    /\ Set(s, [sess[s] EXCEPT
                 !.rows = Append(@, [item |-> sess[s].predictions[k].item,
                                     text |-> FormatPercent(
                                        sess[s].predictions[k].confidence)]),
                 !.st_error = TRUE,
                 !.pc = "cleanup"])
    /\ UNCHANGED <<testVars, cv2_available, runs, disk, loadSteps>>

\* Lines 129-131: the top prediction and its st.success line.
DisplayTop(s) ==
    /\ sess[s].pc = "display"
    /\ Len(sess[s].rows) = Len(sess[s].predictions)
    /\ LET p == sess[s].predictions
           t == TopPrediction(p)
           c == (CHOOSE k \in 1..Len(p) : p[k].item = t)
       IN Set(s, [sess[s] EXCEPT !.top_prediction = t,
                                 !.success = FormatPercent(p[c].confidence),
                                 !.pc = "cleanup"])
    /\ UNCHANGED <<testVars, cv2_available, runs, disk, loadSteps>>

\* Lines 168-170: unlink the temporary file if there is one.
Cleanup(s) ==
    /\ sess[s].pc = "cleanup"
    /\ disk' = IF sess[s].temp_image_path # 0 /\ sess[s].temp_image_path \in disk
               THEN disk \ {sess[s].temp_image_path}
               ELSE disk
    /\ Set(s, [sess[s] EXCEPT !.pc = "done"])
    /\ UNCHANGED <<testVars, cv2_available, runs, loadSteps>>

AppNext ==
    \E s \in Sessions :
        \/ StartRun(s)
        \/ ImportModules(s)
        \/ NoUpload(s)
        \/ OpenUpload(s)
        \/ CreateTempFile(s)
        \/ SaveImage(s)
        \/ NoImage(s)
        \/ LoadModel(s)
        \/ Classify(s)
        \/ DisplayRow(s)
        \/ DisplayTop(s)
        \/ Cleanup(s)

\* The same script with the dictionary replaced by an arbitrary score vector.
ClassifyAny(s) ==
    /\ sess[s].pc = "infer"
    /\ \E p \in PredictionInputs :
         Set(s, [sess[s] EXCEPT !.pc = "display", !.predictions = p])
    /\ UNCHANGED <<testVars, cv2_available, runs, disk, loadSteps>>

RankAppNext ==
    \E s \in Sessions :
        \/ ClassifyAny(s)
        \/ DisplayRow(s)
        \/ DisplayRowRaises(s)
        \/ DisplayTop(s)
        \/ Cleanup(s)

\* ------------------------------------------- the tests' PIL preprocessing
\* Test images are solid-colour: a mode, a size (width, height), one byte per
\* band, and for a palette image the RGB entry its colour index selects.
ByteSamples == {0, 128, 255}
PaletteSamples == { <<0, 0, 0>>, <<255, 128, 0>> }
Dims == 1..MaxDim
Sizes == Dims \X Dims

Colors(mode) ==
    CASE mode = "RGB"  -> ByteSamples \X ByteSamples \X ByteSamples
      [] mode = "RGBA" -> ByteSamples \X ByteSamples \X ByteSamples \X ByteSamples
      [] mode = "L"    -> { <<l>> : l \in ByteSamples }
      [] mode = "P"    -> { <<i>> : i \in ByteSamples }

TestImages ==
    UNION { { [mode |-> m, size |-> z, color |-> c,
               pal |-> IF m = "P" THEN q ELSE << >>] :
              z \in Sizes, c \in Colors(m), q \in PaletteSamples } : m \in Modes }

NoImg == [mode |-> "none", size |-> <<0, 0>>, color |-> << >>, pal |-> << >>]
NoArray == [shape |-> << >>, elems |-> {}]

\* img.convert('RGB'): alpha is dropped, a grey level is repeated on the
\* three bands, a palette index is replaced by its palette entry.
ConvertRGB(im) ==
    [im EXCEPT
       !.mode = "RGB",
       !.pal = << >>,
       !.color = CASE im.mode = "RGB"  -> im.color
                   [] im.mode = "RGBA" -> SubSeq(im.color, 1, 3)
                   [] im.mode = "L"    -> <<im.color[1], im.color[1], im.color[1]>>
                   [] im.mode = "P"    -> im.pal]

\* The conversion left out: the image keeps its mode.
KeepMode(im) == im

\* if img.mode != 'RGB': img = img.convert('RGB')
EnsureRGB(im) == IF im.mode # "RGB" THEN ConvertRGB(im) ELSE im

\* img.resize((w, h), Image.Resampling.LANCZOS): the new size is the argument,
\* (width, height); a solid-colour image keeps its colour.
Resize(im, size) == [im EXCEPT !.size = size]

\* np.array(img, dtype=np.float32): shape (height, width, bands); elements are
\* fractions <<numerator, denominator>>.
ToArray(im) ==
    [shape |-> <<im.size[2], im.size[1], Len(im.color)>>,
     elems |-> { <<im.color[b], 1>> : b \in 1..Len(im.color) }]

\* ... / 255.0
Scale255(a) == [a EXCEPT !.elems = { <<e[1], e[2] * 255>> : e \in a.elems }]

\* np.expand_dims(processed_image, axis=0)
ExpandDims(a) == [a EXCEPT !.shape = <<1>> \o a.shape]

TestIdle ==
    /\ tpc = "idle"
    /\ img = NoImg
    /\ target = <<0, 0>>
    /\ processed_image = NoArray

\* Image.open(temp_path) on some valid image, and a target size.
TestInit ==
    /\ tpc = "opened"
    /\ img \in TestImages
    /\ target \in Sizes
    /\ processed_image = NoArray

TestConvert ==
    /\ tpc = "opened"
    /\ img' = EnsureRGB(img)
    /\ tpc' = "converted"
    /\ UNCHANGED <<appVars, target, processed_image>>

TestResize ==
    /\ tpc = "converted"
    /\ img' = Resize(img, target)
    /\ tpc' = "resized"
    /\ UNCHANGED <<appVars, target, processed_image>>

TestToArray ==
    /\ tpc = "resized"
    /\ processed_image' = Scale255(ToArray(img))
    /\ tpc' = "scaled"
    /\ UNCHANGED <<appVars, img, target>>

TestExpandDims ==
    /\ tpc = "scaled"
    /\ processed_image' = ExpandDims(processed_image)
    /\ tpc' = "batched"
    /\ UNCHANGED <<appVars, img, target>>

TestNext ==
    \/ TestConvert
    \/ TestResize
    \/ TestToArray
    \/ TestExpandDims

\* ------------------------------------------------------------ specifications
vars == <<appVars, testVars>>

\* The script as it is.
Init == AppInit /\ TestIdle
Next == AppNext
Spec == Init /\ [][Next]_vars

\* The script's classification block (lines 96-139) and cleanup over arbitrary
\* score vectors: session 1 is in its second run, the upload saved and the
\* model-loading step done; the score vector is drawn at the inference step.
RankSess(mode) ==
    [NoSess EXCEPT !.pc = "infer", !.run = 2, !.first = FALSE,
                   !.uploaded_file = mode, !.image = OpenImage(mode),
                   !.tmp_file = 2, !.temp_image_path = 2]

RankInit ==
    /\ cv2_available = TRUE
    /\ runs = 2
    /\ disk = {2}
    /\ loadSteps = 1
    /\ \E mode \in {m \in Modes : JpegWritable(m)} :
         sess = [s \in Sessions |->
                   IF s = 1 THEN RankSess(mode)
                   ELSE NoSess]
    /\ TestIdle
RankNext == RankAppNext
RankSpec == RankInit /\ [][RankNext]_vars

\* The tests' preprocessing over arbitrary images and target sizes.
PreInit ==
    /\ cv2_available = TRUE
    /\ runs = 0
    /\ disk = {}
    /\ loadSteps = 0
    /\ sess = [s \in Sessions |-> NoSess]
    /\ TestInit
PreNext == TestNext
PreSpec == PreInit /\ [][PreNext]_vars

\* ==================================================================== claims
\* Helpers of the claims' statements.
IndexOf(p, item) == CHOOSE k \in 1..Len(p) : p[k].item = item

\* Class k comes before class j in a ranking: greater confidence, or the same
\* confidence and the lower class index.
Precedes(p, k, j) ==
    \/ p[k].confidence > p[j].confidence
    \/ p[k].confidence = p[j].confidence /\ k < j

\* The ranked result of a score vector: the classes sorted by Precedes.
Ranked(p) ==
    [r \in 1..Len(p) |->
       p[CHOOSE k \in 1..Len(p) :
           Cardinality({j \in 1..Len(p) : Precedes(p, j, k)}) = r - 1]]

RECURSIVE SumText(_)
SumText(rows) == IF rows = << >> THEN 0 ELSE Head(rows).text + SumText(Tail(rows))

Abs(x) == IF x < 0 THEN -x ELSE x

\* All rows of the run's predictions are on the page.
AllRowsShown(s) ==
    /\ sess[s].predictions # << >>
    /\ Len(sess[s].rows) = Len(sess[s].predictions)

\* The run of session s ended in a failure: an uncaught exception, or the
\* except clause's error message.
Failed(s) == sess[s].exc # "none" \/ sess[s].st_error

C2_TopIsFirstOfRanking ==
    \A s \in Sessions :
        sess[s].top_prediction # "none" =>
            /\ sess[s].top_prediction = Ranked(sess[s].predictions)[1].item
            /\ sess[s].success =
                   FormatPercent(Ranked(sess[s].predictions)[1].confidence)
            /\ sess[s].predictions = MockPredictions =>
                   /\ sess[s].top_prediction = "Plastic Bottle"
                   /\ sess[s].success = 850

\* C2 witness: a top prediction shown for a vector whose maximum is shared by
\* the second and third classes.
C2_Witness ==
    \E s \in Sessions :
        /\ sess[s].top_prediction = "B"
        /\ Len(sess[s].predictions) = 3
        /\ sess[s].predictions[1].confidence < sess[s].predictions[2].confidence
        /\ sess[s].predictions[2].confidence = sess[s].predictions[3].confidence

\* C3: a missing OpenCV is not an error: no run raises ImportError.
C3_MissingBackendNotAnError ==
    \A s \in Sessions : sess[s].exc # "ImportError"

\* C4: the image handed on after decode has exactly 3 channels.
C4_DecodedImageIsRGB ==
    \A s \in Sessions :
        sess[s].image # "none" => Channels(sess[s].image) = 3

\* C5: after every run, however it ended, the temporary file the run created
\* no longer exists.
C5_TempFileReleased ==
    \A s \in Sessions :
        sess[s].pc \in {"done", "raised"} => sess[s].tmp_file \notin disk

C7_TensorShapeAndRange ==
    tpc = "batched" =>
        /\ processed_image.shape = <<1, target[2], target[1], 3>>
        /\ \A e \in processed_image.elems :
               e[2] = 255 /\ 0 <= e[1] /\ e[1] <= e[2]

\* C7 witness: a finished preprocessing with a non-square target whose tensor
\* holds both ends of the range.
C7_Witness ==
    /\ tpc = "batched"
    /\ target[1] # target[2]
    /\ {<<0, 255>>, <<255, 255>>} \subseteq processed_image.elems

C10_SameResultForAnyImage ==
    \A s, t \in Sessions :
        (sess[s].top_prediction # "none" /\ sess[t].top_prediction # "none") =>
            /\ sess[s].rows = sess[t].rows
            /\ sess[s].top_prediction = sess[t].top_prediction
            /\ sess[s].success = sess[t].success
            /\ sess[s].rows =
                 [k \in 1..Len(MockPredictions) |->
                    [item |-> MockPredictions[k].item,
                     text |-> FormatPercent(MockPredictions[k].confidence)]]
            /\ sess[s].top_prediction = "Plastic Bottle"
            /\ sess[s].success = 850

\* C10 witness: two sessions have their results on the page for images of
\* different colour modes.
C10_Witness ==
    \E s, t \in Sessions :
        /\ sess[s].top_prediction # "none"
        /\ sess[t].top_prediction # "none"
        /\ sess[s].image = "RGB"
        /\ sess[t].image = "L"
====
